---- MODULE Spec2Model ----
(***************************************************************************)
(* Block-based motion estimation of find_motion.c: the 3x3 median filter,  *)
(* the full-search block matcher (compute_sad, match, full_search) and the *)
(* motion-field statistics (quick_sqrt, compute_statistics).               *)
(***************************************************************************)
EXTENDS Integers, Sequences, FiniteSets, TLC

VARIABLES
  pc,          \* position of the routine being executed
  width,       \* frame width  (int32 width)
  height,      \* frame height (int32 height)
  prev_image,  \* full_search: address of the previous frame's pixel buffer
  curr_image,  \* full_search: address of the current frame's pixel buffer
  mv,          \* the motion field MVector mv[], 0-based, row-major
  idx, idy,    \* full_search: grid loop counters
  x, y,        \* full_search: locals that receive match's outputs
  xy_set,      \* match: *x and *y were written during the current call
  posx, posy,  \* match: the anchor it was called with
  mvx, mvy,    \* match: candidate displacement loop counters
  min_sad,     \* match: running best cost
  sad,         \* match: cost of the candidate evaluated last
  image,       \* median3x3: the pixel buffer, 0-based, row-major
  image0,      \* median3x3: the buffer's contents when median3x3 was called
  row, col,    \* median3x3: loop counters
  pix_array,   \* median3x3: the local array of 9 samples (element i+1 is [i])
  size,        \* compute_statistics: number of entries of mv[]
  mean, min, max,  \* main: the floats compute_statistics reports into
  length,      \* compute_statistics: magnitude of the entry handled last
  total        \* compute_statistics: running sum of the magnitudes

MedianVars == <<image, image0, row, col, pix_array>>
StatVars == <<size, mean, min, max, length, total>>

vars == <<pc, width, height, prev_image, curr_image, mv, idx, idy, x, y,
          xy_set, posx, posy, mvx, mvy, min_sad, sad, MedianVars, StatVars>>

(***************************************************************************)
(* Program constants.                                                      *)
(***************************************************************************)
BSIZE == 16
MSTEP == 8
INT_MAX == 2147483647

(***************************************************************************)
(* Bounds of the model.                                                    *)
(***************************************************************************)
\* Textured frames are generated for the seeds 0..MaxSeed.
MaxSeed == 1
\* The read positions are explored for every frame of up to MaxReadDim
\* pixels in width and in height, and for 720 x 480.
MaxReadDim == 80
\* median3x3 is run on every frame of up to MaxMedianDim pixels in width and
\* in height, with the contents generated for the seeds 0..MaxMedianSeed.
MaxMedianDim == 5
MaxMedianSeed == 15
\* compute_statistics is run on every field of up to MaxFieldSize entries.
MaxFieldSize == 3

(***************************************************************************)
(* Integer helpers.                                                        *)
(***************************************************************************)
Abs(a) == IF a < 0 THEN -a ELSE a

\* Conversion of an int to the signed 8-bit type int8 of MVector.x / .y.
ToInt8(v) == ((v + 128) % 256) - 128

(***************************************************************************)
(* Input frames.  A frame is described by a small record and its pixels    *)
(* (uint8, row-major) are tabulated once in FrameMem; prev_image and       *)
(* curr_image are addresses into FrameMem, as the C pointers are addresses *)
(* of read-only buffers.                                                   *)
(***************************************************************************)
Texture(seed, r, c) == (r*r*3 + c*c*5 + r*c*7 + seed*11*(r + 2*c)) % 256

ConstFrame(v) == [kind |-> "const", v |-> v, dx |-> 0, dy |-> 0]
TexFrame(seed, dx, dy) == [kind |-> "tex", v |-> seed, dx |-> dx, dy |-> dy]
StripeFrame(p) == [kind |-> "stripe", v |-> p, dx |-> 0, dy |-> 0]

\* The uint8 sample of frame description d at (row r, column c).
PixelOf(d, r, c) ==
  IF d.kind = "const" THEN d.v
  ELSE IF d.kind = "tex" THEN Texture(d.v, r + d.dy, c + d.dx)
  ELSE 255 * ((c \div d.v) % 2)

FramePair(w, h, p, c) == [w |-> w, h |-> h, prev |-> p, curr |-> c]

\* Frame pairs that do not depend on a seed: equal constant frames (64x64
\* among them), black against white, stripes (many equal candidates), frames
\* too small for any grid cell to be computed, a frame with three cells.
PlainInputs ==
  << FramePair(64, 64, ConstFrame(128), ConstFrame(128)),
     FramePair(56, 56, ConstFrame(0), ConstFrame(0)),
     FramePair(56, 56, ConstFrame(0), ConstFrame(255)),
     FramePair(56, 56, StripeFrame(4), StripeFrame(4)),
     FramePair(63, 57, TexFrame(0, 0, 0), TexFrame(0, 15, 15)),
     FramePair(72, 60, TexFrame(0, 0, 0), TexFrame(0, -1, 0)),
     FramePair(1, 1, ConstFrame(7), ConstFrame(7)),
     FramePair(8, 8, ConstFrame(7), ConstFrame(9)),
     FramePair(55, 56, ConstFrame(1), ConstFrame(2)),
     FramePair(72, 39, ConstFrame(3), ConstFrame(3)),
     FramePair(16, 100, ConstFrame(0), ConstFrame(0)) >>

\* Frame pairs of one texture: the current frame is the previous one
\* displaced, or another texture altogether.
TexInputs(s) ==
  << FramePair(56, 56, TexFrame(s, 0, 0), TexFrame(s, 3, -2)),
     FramePair(56, 56, TexFrame(s, 0, 0), TexFrame(s, -16, -16)),
     FramePair(56, 56, TexFrame(s, 0, 0), TexFrame(s + 1, 5, 40)) >>

RECURSIVE TexInputsUpTo(_)
TexInputsUpTo(s) == IF s < 0 THEN << >> ELSE TexInputsUpTo(s - 1) \o TexInputs(s)

SearchInputs == PlainInputs \o TexInputsUpTo(MaxSeed)

\* The pixels of description d for a w x h frame, row-major, as a sequence
\* (element i+1 is the C buffer's element i).
FramePixels(d, w, h) ==
  SubSeq([i \in 1..(w*h) |-> PixelOf(d, (i-1) \div w, (i-1) % w)], 1, w*h)

\* Buffer 2n-1 is the previous frame of input n, buffer 2n its current frame.
FrameMem ==
  SubSeq([a \in 1..(2*Len(SearchInputs)) |->
            LET in == SearchInputs[(a + 1) \div 2]
            IN FramePixels(IF a % 2 = 1 THEN in.prev ELSE in.curr, in.w, in.h)],
         1, 2*Len(SearchInputs))

PrevAddr(n) == 2*n - 1
CurrAddr(n) == 2*n

(***************************************************************************)
(* compute_sad: the sum of absolute differences of two 16x16 blocks.       *)
(***************************************************************************)
\* Linear buffer indices compute_sad reads for a block anchored at (ax, ay):
\* the smallest and the largest of (ay+y)*width+(ax+x), 0 <= x, y < BSIZE.
FirstIndex(w, ax, ay) == ay*w + ax
LastIndex(w, ax, ay) == (ay + BSIZE - 1)*w + (ax + BSIZE - 1)

\* Columns and rows of the pixel positions read for a block anchored at
\* (ax, ay): position (ay+y, ax+x) for every 0 <= x, y < BSIZE.
ReadCols(ax) == {ax + xx : xx \in 0..(BSIZE - 1)}
ReadRows(ay) == {ay + yy : yy \in 0..(BSIZE - 1)}

\* Every read of the call stays inside the two w x h buffers.
SadInBuffer(w, h, px, py, cx, cy) ==
  /\ FirstIndex(w, px, py) >= 0 /\ LastIndex(w, px, py) < w*h
  /\ FirstIndex(w, cx, cy) >= 0 /\ LastIndex(w, cx, cy) < w*h

\* abs(prev[...] - curr[...]) of one pixel pair.
AbsDiffSigned(a, b) == a - b
AbsDiff(a, b) == Abs(a - b)

\* a + b in 32-bit two's-complement int arithmetic: the sum wraps.
AddInt32(a, b) ==
  IF b >= 0
    THEN IF a > INT_MAX - b THEN ((a - INT_MAX - 1) + b) - INT_MAX - 1 ELSE a + b
    ELSE IF a < (-INT_MAX - 1) - b THEN ((a + INT_MAX + 1) + b) + INT_MAX + 1 ELSE a + b

\* sad = 0; then sad += abs(prev[(py+y)*width+(px+x)] - curr[(cy+y)*width+(cx+x)])
\* for y, x = 0..15.  bp and bc are the buffer indices of a row's first pixel
\* pair; element i+1 of a FrameMem sequence is the buffer's element i.  A
\* row adds at most 16*255, which the int holds; the rows are added in 32 bits.
compute_sad(prev, curr, w, px, py, cx, cy) ==
  LET P == FrameMem[prev]
      C == FrameMem[curr]
      RECURSIVE Row(_, _, _)
      Row(bp, bc, xx) ==
        IF xx = 0 THEN 0
        ELSE Row(bp, bc, xx - 1) + AbsDiff(P[bp + xx], C[bc + xx])
      RECURSIVE Rows(_)
      Rows(yy) ==
        IF yy = 0 THEN 0
        ELSE AddInt32(Rows(yy - 1),
                      Row((py + yy - 1)*w + px, (cy + yy - 1)*w + cx, BSIZE))
  IN Rows(BSIZE)

\* What a call whose reads leave the buffers may return: the bytes it reads
\* there are arbitrary, so any sum of 256 byte differences is possible.
SadOutOfBuffer == {0, BSIZE*BSIZE*255}

(***************************************************************************)
(* full_search and match.                                                  *)
(***************************************************************************)
nx == width \div MSTEP
ny == height \div MSTEP

\* First grid index and index limit of the loops over idy and idx.
GridFirstEarly == 2 - 1
GridFirst == 2
GridLimitLate(n) == n - 3
GridLimit(n) == n - 4

\* Limit of the candidate loops: mvx, mvy < BSIZE.
CandLimitShort == BSIZE - 1
CandLimit == BSIZE

\* Arguments of the compute_sad call match makes for candidate (mvx, mvy).
SadPx == posx + mvx
SadPy == posy + mvy
SadCx == posx
SadCy == posy

\* The initial value of min_sad.
MatchInit == INT_MAX

\* The test that lets a candidate replace the running best.
ReplacesStrict(s, best) == s < best
Replaces(s, best) == s <= best

\* The value stored in an MVector component.
StoredUnsigned(v) == v % 256
Stored(v) == ToInt8(v)

ZeroVector == [x |-> 0, y |-> 0]

\* Values an uninitialised int local may hold.
Indeterminate == {-INT_MAX - 1, 77, INT_MAX}

\* The variables of compute_statistics while it is not running.
IdleStats ==
  /\ size = 0 /\ mean = 0 /\ min = 0 /\ max = 0 /\ length = 0 /\ total = 0

\* The variables of the other routines, idle during full_search.
IdleInSearch ==
  /\ image = << >> /\ image0 = << >> /\ row = 0 /\ col = 0 /\ pix_array = << >>
  /\ IdleStats

\* main: the two frames, and mv[] allocated and cleared by memset.
SearchInit ==
  /\ \E n \in 1..Len(SearchInputs) :
       /\ width = SearchInputs[n].w
       /\ height = SearchInputs[n].h
       /\ prev_image = PrevAddr(n)
       /\ curr_image = CurrAddr(n)
       /\ mv = [i \in 0..((SearchInputs[n].w \div MSTEP) * (SearchInputs[n].h \div MSTEP) - 1)
                  |-> ZeroVector]
  /\ pc = "outer"
  /\ idy = GridFirst
  /\ idx \in Indeterminate
  /\ x \in Indeterminate
  /\ y \in Indeterminate
  /\ xy_set = FALSE
  /\ posx = 0 /\ posy = 0
  /\ mvx = 0 /\ mvy = 0 /\ min_sad = 0 /\ sad = 0
  /\ IdleInSearch

\* for (idy = 2; idy < ny-4; idy++)
FsOuterCtl ==
  /\ pc = "outer"
  /\ IF idy < GridLimit(ny)
       THEN idx' = GridFirst /\ pc' = "inner"
       ELSE idx' = idx /\ pc' = "done"
  /\ UNCHANGED <<width, height, idy, posx, posy, mvx, mvy>>

\* for (idx = 2; idx < nx-4; idx++) and the call match(&x, &y, idx*MSTEP,
\* idy*MSTEP, ...); after the inner loop, idy++.
FsInnerCtl ==
  /\ pc = "inner"
  /\ IF idx < GridLimit(nx)
       THEN /\ posx' = idx*MSTEP /\ posy' = idy*MSTEP
            /\ idy' = idy /\ pc' = "call"
       ELSE /\ idy' = idy + 1 /\ pc' = "outer"
            /\ UNCHANGED <<posx, posy>>
  /\ UNCHANGED <<width, height, idx, mvx, mvy>>

\* match: min_sad = INT_MAX and the start of the two candidate loops.
MatchEnterCtl ==
  /\ pc = "call"
  /\ mvy' = -BSIZE /\ mvx' = -BSIZE
  /\ pc' = "match"
  /\ UNCHANGED <<width, height, idx, idy, posx, posy>>

MatchEnterData ==
  /\ min_sad' = MatchInit
  /\ xy_set' = FALSE
  /\ UNCHANGED <<prev_image, curr_image, mv, x, y, sad>>

\* One pass of match's inner loop: candidate (mvx, mvy), then mvx++ and,
\* at the end of a row of candidates, mvy++; after the last row, return.
MatchStepCtl ==
  /\ pc = "match"
  /\ IF mvx + 1 < CandLimit
       THEN mvx' = mvx + 1 /\ mvy' = mvy /\ pc' = "match"
       ELSE IF mvy + 1 < CandLimit
              THEN mvx' = -BSIZE /\ mvy' = mvy + 1 /\ pc' = "match"
              ELSE mvx' = mvx + 1 /\ mvy' = mvy + 1 /\ pc' = "returned"
  /\ UNCHANGED <<width, height, idx, idy, posx, posy>>

MatchStepData ==
  /\ IF SadInBuffer(width, height, SadPx, SadPy, SadCx, SadCy)
       THEN sad' = compute_sad(prev_image, curr_image, width, SadPx, SadPy, SadCx, SadCy)
       ELSE sad' \in SadOutOfBuffer
  /\ IF Replaces(sad', min_sad)
       THEN min_sad' = sad' /\ x' = mvx /\ y' = mvy /\ xy_set' = TRUE
       ELSE UNCHANGED <<min_sad, x, y, xy_set>>
  /\ UNCHANGED <<prev_image, curr_image, mv>>

\* mv[idy*nx+idx].x = x, mv[idy*nx+idx].y = y; then idx++.
StoreCtl ==
  /\ pc = "returned"
  /\ idx' = idx + 1
  /\ pc' = "inner"
  /\ UNCHANGED <<width, height, idy, posx, posy, mvx, mvy>>

StoreData ==
  /\ mv' = [mv EXCEPT ![idy*nx + idx] = [x |-> Stored(x), y |-> Stored(y)]]
  /\ UNCHANGED <<prev_image, curr_image, x, y, xy_set, min_sad, sad>>

DataVars == <<prev_image, curr_image, mv, x, y, xy_set, min_sad, sad>>

FsOuter == FsOuterCtl /\ UNCHANGED DataVars /\ UNCHANGED <<MedianVars, StatVars>>
FsInner == FsInnerCtl /\ UNCHANGED DataVars /\ UNCHANGED <<MedianVars, StatVars>>
MatchEnter == MatchEnterCtl /\ MatchEnterData /\ UNCHANGED <<MedianVars, StatVars>>
MatchStep == MatchStepCtl /\ MatchStepData /\ UNCHANGED <<MedianVars, StatVars>>
Store == StoreCtl /\ StoreData /\ UNCHANGED <<MedianVars, StatVars>>

Init == SearchInit
Next == FsOuter \/ FsInner \/ MatchEnter \/ MatchStep \/ Store
Spec == Init /\ [][Next]_vars

(***************************************************************************)
(* match on its own: called with an anchor whose 32 x 32 search window and *)
(* 16 x 16 block lie inside the frames.                                    *)
(***************************************************************************)
\* The smallest and the largest anchor whose reads all stay inside the frame.
MatchAnchors(w, h) ==
  IF w < 3*BSIZE - 1 \/ h < 3*BSIZE - 1 THEN {}
  ELSE {<<BSIZE, BSIZE>>, <<w - 2*BSIZE + 1, h - 2*BSIZE + 1>>}

MatchCallInit ==
  /\ \E n \in 1..Len(SearchInputs) :
       /\ width = SearchInputs[n].w
       /\ height = SearchInputs[n].h
       /\ prev_image = PrevAddr(n)
       /\ curr_image = CurrAddr(n)
       /\ \E a \in MatchAnchors(SearchInputs[n].w, SearchInputs[n].h) :
            posx = a[1] /\ posy = a[2]
  /\ pc = "call"
  /\ mv = << >>
  /\ idx = 0 /\ idy = 0
  /\ x \in Indeterminate
  /\ y \in Indeterminate
  /\ xy_set = FALSE
  /\ mvx = 0 /\ mvy = 0 /\ min_sad = 0 /\ sad = 0
  /\ IdleInSearch

MatchNext == MatchEnter \/ MatchStep
SpecMatch == MatchCallInit /\ [][MatchNext]_vars

(***************************************************************************)
(* The pixel positions read during full_search.  Which positions are read  *)
(* is decided by width, height and the loop counters alone, never by a     *)
(* pixel value, so the loops of full_search are run here without pixel     *)
(* data, each call of match taken as one step that reads what its 1024     *)
(* calls of compute_sad read.                                              *)
(***************************************************************************)
\* The values mvx and mvy take in match's loops.
CandRange == (-BSIZE)..(CandLimit - 1)

\* Columns and rows match reads in the previous frame for anchor (ax, ay):
\* those of the blocks anchored at (ax+mvx, ay+mvy), and in the current
\* frame: those of the block anchored at (ax, ay).
MatchPrevCols(ax) == UNION {ReadCols(ax + m) : m \in CandRange}
MatchPrevRows(ay) == UNION {ReadRows(ay + m) : m \in CandRange}
MatchCurrCols(ax) == ReadCols(ax)
MatchCurrRows(ay) == ReadRows(ay)

\* The linear indices of a w-wide buffer at the given rows and columns.
LinearIndices(w, rows, cols) == {r*w + c : r \in rows, c \in cols}

ReadSizes == {<<720, 480>>} \cup ((1..MaxReadDim) \X (1..MaxReadDim))

ReadsInit ==
  /\ \E sz \in ReadSizes : width = sz[1] /\ height = sz[2]
  /\ pc = "outer"
  /\ idy = GridFirst
  /\ idx \in Indeterminate
  /\ prev_image = 0 /\ curr_image = 0 /\ mv = << >>
  /\ x = 0 /\ y = 0 /\ xy_set = FALSE
  /\ posx = 0 /\ posy = 0
  /\ mvx = 0 /\ mvy = 0 /\ min_sad = 0 /\ sad = 0
  /\ IdleInSearch

\* A whole call of match: its loops leave mvx = mvy = BSIZE.
MatchCallCtl ==
  /\ pc = "call"
  /\ mvx' = CandLimit /\ mvy' = CandLimit
  /\ pc' = "returned"
  /\ UNCHANGED <<width, height, idx, idy, posx, posy>>

ReadsCall == MatchCallCtl /\ UNCHANGED DataVars /\ UNCHANGED <<MedianVars, StatVars>>
ReadsStore == StoreCtl /\ UNCHANGED DataVars /\ UNCHANGED <<MedianVars, StatVars>>

ReadsNext == FsOuter \/ FsInner \/ ReadsCall \/ ReadsStore
SpecReads == ReadsInit /\ [][ReadsNext]_vars

(***************************************************************************)
(* median3x3 with matrix_to_array and insertion_sort.                      *)
(***************************************************************************)
\* Bytes a read outside the buffer may deliver.
OutOfBufferBytes == {0, 255}

\* *(ptr + off) for the buffer img; ub is what a read outside it delivers.
ReadByte(img, i, ub) == IF i \in DOMAIN img THEN img[i] ELSE ub

\* matrix_to_array: pix_array[idx++] = *(ptr+x+width*y) for y = -1..1 and,
\* within each y, x = -1..1.
matrix_to_array_snapshot(img, ptr, w, ub) ==
  [k \in 1..9 |->
     ReadByte(image0, ptr + (((k - 1) % 3) - 1) + w*(((k - 1) \div 3) - 1), ub)]
matrix_to_array(img, ptr, w, ub) ==
  [k \in 1..9 |->
     ReadByte(img, ptr + (((k - 1) % 3) - 1) + w*(((k - 1) \div 3) - 1), ub)]

\* The swap of pix_array[jdx] and pix_array[jdx-1].
Swap(a, jdx) == [a EXCEPT ![jdx + 1] = a[jdx], ![jdx] = a[jdx + 1]]

\* for (jdx = idx; jdx > 0; jdx--) if (a[jdx] < a[jdx-1]) swap
RECURSIVE SortInner(_, _)
SortInner(a, jdx) ==
  IF jdx > 0
    THEN SortInner(IF a[jdx + 1] < a[jdx] THEN Swap(a, jdx) ELSE a, jdx - 1)
    ELSE a

\* for (idx = 1; idx < size; idx++)
RECURSIVE SortOuter(_, _, _)
SortOuter(a, i, n) ==
  IF i < n THEN SortOuter(SortInner(a, i), i + 1, n) ELSE a

\* insertion_sort(pix_array, size), n being its size
insertion_sort(a, n) == SortOuter(a, 1, n)

\* Limits of the loops over row and col.
MedianColLimitWide(w) == w
MedianColLimit(w) == w - 1
MedianRowLimit(h) == h - 1

\* The contents of the frames median3x3 is run on: sample i for a seed, over
\* the whole range of a byte for even seeds and over 4 levels for odd ones.
MedianSample(seed, i) ==
  LET v == ((seed*53 + 17)*(i*7 + 3) + i*i*(seed + 5) + (i \div 3)*29) % 256
  IN IF seed % 2 = 0 THEN v ELSE 85*((v \div 8) % 4)

MedianInit ==
  /\ \E w \in 1..MaxMedianDim, h \in 1..MaxMedianDim, seed \in 0..MaxMedianSeed :
       /\ width = w /\ height = h
       /\ image = [i \in 0..(w*h - 1) |-> MedianSample(seed, i)]
       /\ image0 = [i \in 0..(w*h - 1) |-> MedianSample(seed, i)]
  /\ pc = "rows"
  /\ row = 1
  /\ col \in Indeterminate
  /\ pix_array \in {[k \in 1..9 |-> b] : b \in OutOfBufferBytes}
  /\ prev_image = 0 /\ curr_image = 0 /\ mv = << >>
  /\ idx = 0 /\ idy = 0 /\ x = 0 /\ y = 0 /\ xy_set = FALSE
  /\ posx = 0 /\ posy = 0
  /\ mvx = 0 /\ mvy = 0 /\ min_sad = 0 /\ sad = 0
  /\ IdleStats

SearchVars == <<prev_image, curr_image, mv, idx, idy, x, y, xy_set, posx, posy,
                mvx, mvy, min_sad, sad>>

\* for (row = 1; row < height-1; row++)
MedianRows ==
  /\ pc = "rows"
  /\ IF row < MedianRowLimit(height)
       THEN col' = 1 /\ pc' = "cols"
       ELSE col' = col /\ pc' = "filtered"
  /\ UNCHANGED <<width, height, image, image0, row, pix_array, SearchVars, StatVars>>

\* for (col = 1; col < width-1; col++) and its body: the 9 samples around
\* ptr = image + row*width + col are gathered and sorted, *ptr = pix_array[4].
MedianCols ==
  /\ pc = "cols"
  /\ IF col < MedianColLimit(width)
       THEN \E ub \in OutOfBufferBytes :
              LET ptr == row*width + col
                  sorted == insertion_sort(matrix_to_array(image, ptr, width, ub), 9)
              IN /\ pix_array' = sorted
                 /\ image' = IF ptr \in DOMAIN image
                               THEN [image EXCEPT ![ptr] = sorted[5]]
                               ELSE image
                 /\ col' = col + 1
                 /\ row' = row
                 /\ pc' = "cols"
       ELSE /\ row' = row + 1
            /\ pc' = "rows"
            /\ UNCHANGED <<image, col, pix_array>>
  /\ UNCHANGED <<width, height, image0, SearchVars, StatVars>>

MedianNext == MedianRows \/ MedianCols
SpecMedian == MedianInit /\ [][MedianNext]_vars

(***************************************************************************)
(* IEEE-754 single precision.  A float is held as its 32-bit pattern read  *)
(* as a signed int, which is what memcpy between float and int delivers.   *)
(* All intermediate integers stay below 2^31.                              *)
(***************************************************************************)
RECURSIVE BitLen(_)
BitLen(n) == IF n = 0 THEN 0 ELSE 1 + BitLen(n \div 2)

FSign(b) == IF b < 0 THEN 1 ELSE 0
FMag(b) == IF b < 0 THEN (b + INT_MAX) + 1 ELSE b
FExp(b) == FMag(b) \div (2^23)
FFrac(b) == FMag(b) % (2^23)
IsNaN(b) == FExp(b) = 255 /\ FFrac(b) # 0
IsInf(b) == FExp(b) = 255 /\ FFrac(b) = 0
IsZero(b) == FMag(b) = 0

\* The pattern of sign s and magnitude pattern m.
FBits(s, m) == IF s = 1 THEN (m - INT_MAX) - 1 ELSE m
FNaN == 255*(2^23) + 2^22
FInf(s) == FBits(s, 255*(2^23))
FZero(s) == FBits(s, 0)

\* A finite float is man * 2^ex with man < 2^24.
FMan(b) == IF FExp(b) = 0 THEN FFrac(b) ELSE 2^23 + FFrac(b)
FEx(b) == IF FExp(b) = 0 THEN -149 ELSE FExp(b) - 150

\* The pattern of q * 2^ex, q < 2^24: subnormal, infinite or normal.
Pack(s, q, ex) ==
  IF q < 2^23 THEN FBits(s, q)
  ELSE IF ex + 150 >= 255 THEN FInf(s)
  ELSE FBits(s, (ex + 150)*(2^23) + (q - 2^23))

\* n shifted right by sh places (left for sh <= 0), and what that discards.
Quot(n, sh) ==
  IF sh <= 0 THEN n * 2^(-sh) ELSE IF sh >= 31 THEN 0 ELSE n \div 2^sh
Rem(n, sh) ==
  IF sh <= 0 THEN 0 ELSE IF sh >= 31 THEN n ELSE n % 2^sh

\* The discarded part against half a unit of the quotient: -1, 0 or 1.
HalfCmp(rem, sh, sticky) ==
  IF sh <= 0 \/ sh >= 32 THEN -1
  ELSE IF rem < 2^(sh - 1) THEN -1
  ELSE IF rem > 2^(sh - 1) \/ sticky THEN 1
  ELSE 0

\* Round to nearest, ties to even, and renormalise on a carry out.
RoundEven(s, q0, cmp, ex) ==
  IF cmp = 1 \/ (cmp = 0 /\ q0 % 2 = 1)
    THEN IF q0 + 1 = 2^24 THEN Pack(s, 2^23, ex + 1) ELSE Pack(s, q0 + 1, ex)
    ELSE Pack(s, q0, ex)

ShiftRound(s, n, e, sticky, sh) ==
  RoundEven(s, Quot(n, sh), HalfCmp(Rem(n, sh), sh, sticky), e + sh)

\* The shift that leaves 24 bits, or fewer at the subnormal exponent -149.
ShiftFor(len, e) == IF len - 24 > -149 - e THEN len - 24 ELSE -149 - e

\* The float nearest to (-1)^s * (n + f) * 2^e, ties to even, where
\* 0 <= n < 2^31 and f = 0, or 0 < f < 1 when sticky; a sticky n has at
\* least 26 bits.
RoundPack(s, n, e, sticky) ==
  IF n = 0 THEN FZero(s)
  ELSE ShiftRound(s, n, e, sticky, ShiftFor(BitLen(n), e))

\* (float) n for an int n.
IntToFloat(n) ==
  IF n >= 0 THEN RoundPack(0, n, 0, FALSE)
  ELSE IF n = -INT_MAX - 1 THEN FBits(1, (31 + 127)*(2^23))
  ELSE RoundPack(1, -n, 0, FALSE)

\* The 48-bit product of two 24-bit numbers given in 12-bit halves, as
\* <<H, L>> with product = H*2^24 + L.
MulCarry(h, low) == <<h + low \div (2^24), low % (2^24)>>
MulSum(hh, cross, ll) ==
  MulCarry(hh + cross \div 4096, (cross % 4096)*4096 + ll)
Mul48(ma, mb) ==
  MulSum((ma \div 4096)*(mb \div 4096),
         (ma \div 4096)*(mb % 4096) + (ma % 4096)*(mb \div 4096),
         (ma % 4096)*(mb % 4096))

\* The product H*2^24 + L cut to at most 30 bits by dropping k bits.
MulShift(s, H, L, e, k) ==
  RoundPack(s, H * 2^(24 - k) + L \div 2^k, e + k, L % 2^k # 0)
MulRound(s, P, e, hlen) ==
  MulShift(s, P[1], P[2], e, IF hlen > 6 THEN hlen - 6 ELSE 0)
MulMan(s, P, e) == MulRound(s, P, e, BitLen(P[1]))

\* a * b
FMulSigned(s, a, b) ==
  IF IsNaN(a) \/ IsNaN(b) THEN FNaN
  ELSE IF IsInf(a) \/ IsInf(b)
         THEN IF IsZero(a) \/ IsZero(b) THEN FNaN ELSE FInf(s)
  ELSE IF IsZero(a) \/ IsZero(b) THEN FZero(s)
  ELSE MulMan(s, Mul48(FMan(a), FMan(b)), FEx(a) + FEx(b))
FMul(a, b) == FMulSigned((FSign(a) + FSign(b)) % 2, a, b)

\* M1 + M2 or M1 - M2 by the signs, M2 having lost a fraction when sticky.
AddMan(sb, ss, e, M1, M2, sticky) ==
  IF sb = ss THEN RoundPack(sb, M1 + M2, e, sticky)
  ELSE IF M1 = M2 /\ ~sticky THEN FZero(0)
  ELSE RoundPack(sb, IF sticky THEN M1 - M2 - 1 ELSE M1 - M2, e, sticky)

\* m shifted right to the larger operand's exponent, d places.
AlignedMan(m, d) == IF d >= 31 THEN 0 ELSE m \div 2^d
AlignedSticky(m, d) == IF d >= 31 THEN m # 0 ELSE m % 2^d # 0

\* big + small, |big| >= |small|, with 6 guard bits.
AddAligned(big, small, d) ==
  AddMan(FSign(big), FSign(small), FEx(big) - 6, FMan(big)*64,
         AlignedMan(FMan(small)*64, d), AlignedSticky(FMan(small)*64, d))
FAddOrdered(big, small) == AddAligned(big, small, FEx(big) - FEx(small))

\* a + b
FAdd(a, b) ==
  IF IsNaN(a) \/ IsNaN(b) THEN FNaN
  ELSE IF IsInf(a) THEN (IF IsInf(b) /\ FSign(a) # FSign(b) THEN FNaN ELSE a)
  ELSE IF IsInf(b) THEN b
  ELSE IF IsZero(a) /\ IsZero(b)
         THEN (IF FSign(a) = 1 /\ FSign(b) = 1 THEN FZero(1) ELSE FZero(0))
  ELSE IF FMag(a) >= FMag(b) THEN FAddOrdered(a, b)
  ELSE FAddOrdered(b, a)

\* a - b
FNeg(b) == IF IsNaN(b) THEN b ELSE FBits(1 - FSign(b), FMag(b))
FSub(a, b) == FAdd(a, FNeg(b))

\* The quotient bits of r / m, r < m, extended by n more binary places.
RECURSIVE DivBits(_, _, _, _)
DivBits(q, r, m, n) ==
  IF n = 0 THEN <<q, r>>
  ELSE IF 2*r >= m THEN DivBits(2*q + 1, 2*r - m, m, n - 1)
  ELSE DivBits(2*q, 2*r, m, n - 1)

\* ma / mb for normalised ma and mb, to 28 binary places.
DivRound(s, qr, e) == RoundPack(s, qr[1], e, qr[2] # 0)
DivNorm(s, ma, mb, e) ==
  DivRound(s, DivBits(ma \div mb, ma % mb, mb, 28), e - 28)
DivMan(s, a, b, na, nb) ==
  DivNorm(s, FMan(a) * 2^na, FMan(b) * 2^nb, (FEx(a) - na) - (FEx(b) - nb))

\* a / b
FDivSigned(s, a, b) ==
  IF IsNaN(a) \/ IsNaN(b) THEN FNaN
  ELSE IF IsInf(a) THEN (IF IsInf(b) THEN FNaN ELSE FInf(s))
  ELSE IF IsInf(b) THEN FZero(s)
  ELSE IF IsZero(b) THEN (IF IsZero(a) THEN FNaN ELSE FInf(s))
  ELSE IF IsZero(a) THEN FZero(s)
  ELSE DivMan(s, a, b, 24 - BitLen(FMan(a)), 24 - BitLen(FMan(b)))
FDiv(a, b) == FDivSigned((FSign(a) + FSign(b)) % 2, a, b)

\* a < b and a > b
FLt(a, b) ==
  IF IsNaN(a) \/ IsNaN(b) THEN FALSE
  ELSE IF IsZero(a) /\ IsZero(b) THEN FALSE
  ELSE IF FSign(a) # FSign(b) THEN FSign(a) = 1
  ELSE IF FSign(a) = 0 THEN FMag(a) < FMag(b)
  ELSE FMag(a) > FMag(b)
FGt(a, b) == FLt(b, a)

(***************************************************************************)
(* quick_sqrt.                                                             *)
(***************************************************************************)
SqrtMagic == 1597463174
FloatHalf == 1056964608
FloatOneAndHalf == 1069547520
FloatOne == 1065353216

\* x = x*(1.5f-xhalf*x*x)
NewtonStepReversed(xhalf, xf) ==
  FMul(xf, FSub(FMul(FMul(xhalf, xf), xf), FloatOneAndHalf))
NewtonStep(xhalf, xf) ==
  FMul(xf, FSub(FloatOneAndHalf, FMul(FMul(xhalf, xf), xf)))

\* i = 0x5f375a86 - (i>>1) on the bits of x
InitialGuess(i) == AddInt32(SqrtMagic, -(i \div 2))

\* The three Newton steps, then return 1/x.
Newton3(xhalf, x0) ==
  FDiv(FloatOne, NewtonStep(xhalf, NewtonStep(xhalf, NewtonStep(xhalf, x0))))

quick_sqrt(xf) == Newton3(FMul(FloatHalf, xf), InitialGuess(xf))

\* quick_sqrt((float) n), tabulated for every n = x*x + y*y that a vector of
\* the displacement range -BSIZE..BSIZE-1 gives.
SqrtOfSquares == [n \in 0..(2*BSIZE*BSIZE) |-> quick_sqrt(IntToFloat(n))]

(***************************************************************************)
(* compute_statistics.                                                     *)
(***************************************************************************)
\* The entries after the first of the fields the statistics are run on.
TailVectors == {ZeroVector, [x |-> -BSIZE, y |-> -BSIZE]}

\* The fields of n entries: any vector of the displacement range first, then
\* tail vectors.
StatFields(n) ==
  IF n = 0 THEN {<< >>}
  ELSE {[i \in 0..(n - 1) |-> IF i = 0 THEN [x |-> vx, y |-> vy] ELSE t[i]] :
          vx \in (-BSIZE)..(BSIZE - 1), vy \in (-BSIZE)..(BSIZE - 1),
          t \in [1..(n - 1) -> TailVectors]}

\* main: compute_statistics(&mean, &min, &max, mv, size) with main's
\* uninitialised mean, min and max.
StatInit ==
  /\ \E n \in 0..MaxFieldSize : size = n /\ mv \in StatFields(n)
  /\ \E u \in Indeterminate : mean = u /\ min = u /\ max = u
  /\ pc = "stat_call"
  /\ idx \in Indeterminate
  /\ length = 0 /\ total = 0
  /\ width = 0 /\ height = 0 /\ prev_image = 0 /\ curr_image = 0
  /\ idy = 0 /\ x = 0 /\ y = 0 /\ xy_set = FALSE
  /\ posx = 0 /\ posy = 0
  /\ mvx = 0 /\ mvy = 0 /\ min_sad = 0 /\ sad = 0
  /\ image = << >> /\ image0 = << >> /\ row = 0 /\ col = 0 /\ pix_array = << >>

NotStatVars == <<width, height, prev_image, curr_image, idy, x, y, xy_set,
                 posx, posy, mvx, mvy, min_sad, sad, MedianVars>>

\* length = total = 0; *min = *max = 0; idx = 0
StatEnter ==
  /\ pc = "stat_call"
  /\ length' = IntToFloat(0)
  /\ total' = IntToFloat(0)
  /\ min' = IntToFloat(0)
  /\ max' = IntToFloat(0)
  /\ idx' = 0
  /\ pc' = "stat_loop"
  /\ UNCHANGED <<mean, mv, size, NotStatVars>>

\* if (length < *min) *min = length;  if (length > *max) *max = length;
MinUpdate(len, m) == IF FLt(len, m) THEN len ELSE m
MaxUpdate(len, m) == IF FGt(len, m) THEN len ELSE m

\* for (idx = 0; idx < size; idx++) and its body, then *mean = total / size
StatStep ==
  /\ pc = "stat_loop"
  /\ IF idx < size
       THEN LET len == SqrtOfSquares[mv[idx].x*mv[idx].x + mv[idx].y*mv[idx].y]
            IN /\ length' = len
               /\ min' = MinUpdate(len, min)
               /\ max' = MaxUpdate(len, max)
               /\ total' = FAdd(total, len)
               /\ idx' = idx + 1
               /\ pc' = "stat_loop"
               /\ mean' = mean
       ELSE /\ mean' = FDiv(total, IntToFloat(size))
            /\ pc' = "stat_done"
            /\ UNCHANGED <<length, min, max, total, idx>>
  /\ UNCHANGED <<mv, size, NotStatVars>>

StatNext == StatEnter \/ StatStep
SpecStats == StatInit /\ [][StatNext]_vars

(***************************************************************************)
(* Reference notions the properties are stated with.                       *)
(***************************************************************************)
\* The 1024 candidate displacements, numbered 1..1024; the numbering is only
\* a way to tabulate their costs.
NumCands == (2*BSIZE) * (2*BSIZE)
CandX(k) == ((k - 1) % (2*BSIZE)) - BSIZE
CandY(k) == ((k - 1) \div (2*BSIZE)) - BSIZE
CandNo(cx, cy) == (cy + BSIZE)*(2*BSIZE) + (cx + BSIZE) + 1

\* The SAD of every candidate for the anchor (ax, ay).
SadTable(prev, curr, w, ax, ay) ==
  SubSeq([k \in 1..NumCands |->
            compute_sad(prev, curr, w, ax + CandX(k), ay + CandY(k), ax, ay)],
         1, NumCands)

\* Candidate (ax, ay) comes no later than (bx, by) when candidates are
\* ordered by mvy and, for equal mvy, by mvx.
NoLater(ax, ay, bx, by) == ay < by \/ (ay = by /\ ax <= bx)

\* The block of the current frame at (ax, ay) is byte-identical to the
\* block of the previous frame at (ax+dx, ay+dy).
BlockIdentical(prev, curr, w, ax, ay, dx, dy) ==
  \A yy \in 0..(BSIZE - 1) : \A xx \in 0..(BSIZE - 1) :
     FrameMem[curr][(ay + yy)*w + (ax + xx) + 1]
       = FrameMem[prev][(ay + dy + yy)*w + (ax + dx + xx) + 1]

MinOf(S) == CHOOSE v \in S : \A u \in S : v <= u
MaxOf(S) == CHOOSE v \in S : \A u \in S : u <= v

\* The smallest entry of a cost table (taken row of candidates by row).
TableMin(T) ==
  MinOf({ MinOf({ T[(2*BSIZE)*r + c] : c \in 1..(2*BSIZE) }) : r \in 0..(2*BSIZE - 1) })

\* The displacement the contract of match singles out for anchor (ax, ay):
\* among the candidates of minimal SAD the one with the largest mvy and,
\* among those, the largest mvx.
MatchRef(prev, curr, w, ax, ay) ==
  LET T == SadTable(prev, curr, w, ax, ay)
      m == TableMin(T)
      K == {k \in 1..NumCands : T[k] = m}
      by == MaxOf({CandY(k) : k \in K})
      bx == MaxOf({CandX(k) : k \in {j \in K : CandY(j) = by}})
  IN [x |-> bx, y |-> by]

\* Margin cells of the grid, and the cells full_search computes.
MarginCell(i, j) == i < 2 \/ j < 2 \/ i >= nx - 4 \/ j >= ny - 4
GridCells == {<<i, j>> : i \in 0..(nx - 1), j \in 0..(ny - 1)}
ComputedCells == {c \in GridCells : ~MarginCell(c[1], c[2])}

\* Both frames are 64 x 64 and every pixel of both has one and the same value.
ConstantIdentical64 ==
  /\ width = 64 /\ height = 64
  /\ \A i \in 1..(64*64) :
       /\ FrameMem[prev_image][i] = FrameMem[prev_image][1]
       /\ FrameMem[curr_image][i] = FrameMem[prev_image][1]


(***************************************************************************)
(* C2: match returns a displacement in [-16,15]^2 whose SAD is the minimum *)
(* over all 1024 candidates; among the candidates that attain the minimum  *)
(* it returns the one with the largest mvy and, among those, the largest   *)
(* mvx; the returned cost is that minimum.                                 *)
(***************************************************************************)
C2_MatchMinimumLastTie ==
  pc = "returned" =>
    LET T == SadTable(prev_image, curr_image, width, posx, posy)
    IN /\ x \in (-BSIZE)..(BSIZE - 1)
       /\ y \in (-BSIZE)..(BSIZE - 1)
       /\ min_sad = T[CandNo(x, y)]
       /\ \A k \in 1..NumCands : min_sad <= T[k]
       /\ \A k \in 1..NumCands :
            T[k] = min_sad => NoLater(CandX(k), CandY(k), x, y)

\* match has returned where several, but not all, candidates attain the
\* minimum.
C2_Witness ==
  /\ pc = "returned"
  /\ LET T == SadTable(prev_image, curr_image, width, posx, posy)
     IN /\ Cardinality({k \in 1..NumCands : T[k] = min_sad}) > 1
        /\ \E k \in 1..NumCands : T[k] > min_sad
(***************************************************************************)
(* C7: if the block of the current frame at the anchor is byte-identical   *)
(* to the block of the previous frame displaced by (dx, dy) in [-16,15]^2  *)
(* and no other displacement has SAD 0, match returns (dx, dy) and cost 0. *)
(***************************************************************************)
C7_ExactMatchRecovered ==
  pc = "returned" =>
    LET T == SadTable(prev_image, curr_image, width, posx, posy)
        Z == {k \in 1..NumCands : T[k] = 0}
    IN \A k \in 1..NumCands :
         ( /\ Z \subseteq {k}
           /\ BlockIdentical(prev_image, curr_image, width, posx, posy, CandX(k), CandY(k)) )
         => (x = CandX(k) /\ y = CandY(k) /\ min_sad = 0)

\* match has returned for an anchor whose block occurs in the previous frame
\* at exactly one displacement, the largest in both components.
C7_Witness ==
  /\ pc = "returned"
  /\ LET T == SadTable(prev_image, curr_image, width, posx, posy)
     IN /\ {k \in 1..NumCands : T[k] = 0} = {CandNo(BSIZE - 1, BSIZE - 1)}
        /\ BlockIdentical(prev_image, curr_image, width, posx, posy, BSIZE - 1, BSIZE - 1)

C3_Original ==
  (pc = "done" /\ ConstantIdentical64) =>
     \A c \in ComputedCells : mv[c[2]*nx + c[1]] = ZeroVector

(***************************************************************************)
(* C3 as amended: for two identical constant 64x64 frames every computed   *)
(* grid cell of the field full_search produces holds (15,15), the          *)
(* candidate visited last, since all 1024 candidates have SAD 0.           *)
(***************************************************************************)
C3_ConstantFramesGiveLastCandidate ==
  (pc = "done" /\ ConstantIdentical64) =>
     \A c \in ComputedCells :
        mv[c[2]*nx + c[1]] = [x |-> BSIZE - 1, y |-> BSIZE - 1]

\* full_search has finished on two identical constant 64x64 frames, whose
\* grid has four computed cells.
C3_Witness ==
  /\ pc = "done"
  /\ ConstantIdentical64
  /\ Cardinality(ComputedCells) = 4

(***************************************************************************)
(* C9: every entry of the motion field has both components in [-16,15];    *)
(* the cell just stored holds match's int outputs unchanged; and when      *)
(* full_search has finished every computed cell (idx, idy) holds, at index *)
(* idy*nx+idx, the displacement match returns for anchor (idx*8, idy*8).   *)
(***************************************************************************)
C9_FieldHoldsMatchResults ==
  /\ \A i \in DOMAIN mv :
       /\ mv[i].x \in (-16)..15
       /\ mv[i].y \in (-16)..15
  /\ (pc = "inner" /\ idx > 2) => mv[idy*nx + (idx - 1)] = [x |-> x, y |-> y]
  /\ pc = "done" =>
       \A c \in ComputedCells :
          mv[c[2]*nx + c[1]]
            = MatchRef(prev_image, curr_image, width, c[1]*8, c[2]*8)

\* full_search has finished and stored a vector with a negative and a
\* positive component.
C9_Witness ==
  /\ pc = "done"
  /\ \E c \in ComputedCells :
       mv[c[2]*nx + c[1]].x > 0 /\ mv[c[2]*nx + c[1]].y < 0

(***************************************************************************)
(* C10: every SAD lies in [0, 16*16*255] (no 32-bit overflow), so it is    *)
(* below INT_MAX: the first candidate (-16,-16) replaces the sentinel,     *)
(* match has written both outputs when it returns, and the cost it returns *)
(* is not INT_MAX.                                                         *)
(***************************************************************************)
C10_SadRangeOutputsWritten ==
  /\ sad \in 0..(16*16*255)
  /\ (pc = "match" /\ mvx = -15 /\ mvy = -16) =>
        (min_sad = sad /\ x = -16 /\ y = -16 /\ xy_set)
  /\ pc = "returned" =>
        (xy_set /\ min_sad \in 0..(16*16*255) /\ min_sad < INT_MAX)

\* match has returned the largest possible cost, 16*16*255.
C10_Witness ==
  /\ pc = "returned"
  /\ xy_set
  /\ min_sad = 16*16*255
(***************************************************************************)
(* C4: every pixel position compute_sad reads during full_search, in the   *)
(* previous and in the current frame, has its column in [0, width-1] and   *)
(* its row in [0, height-1], so that every linear index lies in            *)
(* [0, width*height); for 720x480 and for every other frame size.          *)
(***************************************************************************)
C4_ReadsInsideFrames ==
  pc = "call" =>
    /\ \A c \in MatchPrevCols(posx) \cup MatchCurrCols(posx) :
         0 <= c /\ c <= width - 1
    /\ \A r \in MatchPrevRows(posy) \cup MatchCurrRows(posy) :
         0 <= r /\ r <= height - 1
    /\ \A i \in LinearIndices(width, MatchPrevRows(posy), MatchPrevCols(posx))
                 \cup LinearIndices(width, MatchCurrRows(posy), MatchCurrCols(posx)) :
         0 <= i /\ i < width*height

\* On a 720x480 frame match is called for the last grid cell of the loops,
\* (nx-5, ny-5) = (85, 55), whose reads reach furthest right and down.
C4_Witness ==
  /\ pc = "call"
  /\ width = 720 /\ height = 480
  /\ posx = 85*8 /\ posy = 55*8
(***************************************************************************)
(* Notions the properties of median3x3 are stated with.                    *)
(***************************************************************************)
\* Pixel (r, c) is on the border of the frame / strictly inside it.
BorderPixel(r, c) == r = 0 \/ r = height - 1 \/ c = 0 \/ c = width - 1
InteriorPixel(r, c) == 1 <= r /\ r <= height - 2 /\ 1 <= c /\ c <= width - 2

\* The 5th smallest of the 9 values of the sequence a, by counting.
FifthSmallest(a) ==
  CHOOSE v \in {a[k] : k \in 1..9} :
     /\ Cardinality({k \in 1..9 : a[k] < v}) <= 4
     /\ Cardinality({k \in 1..9 : a[k] <= v}) >= 5

\* The sequences a and b hold the same values the same number of times.
SameBag(a, b) ==
  \A v \in {a[k] : k \in DOMAIN a} \cup {b[k] : k \in DOMAIN b} :
     Cardinality({k \in DOMAIN a : a[k] = v}) = Cardinality({k \in DOMAIN b : b[k] = v})

\* Neighbour k (1..9, row-major) of pixel (r, c).
NeighbourRow(r, k) == r + ((k - 1) \div 3) - 1
NeighbourCol(c, k) == c + ((k - 1) % 3) - 1

\* What the filter sees around interior pixel (r, c) if it works in place
\* and in row-major order on a buffer that finally holds final: the three
\* neighbours above and the left one as filtered (unless they are border
\* pixels, which keep their original value), the others as they were.
SeenInPlace(final, r, c) ==
  [k \in 1..9 |->
     LET nr == NeighbourRow(r, k)
         nc == NeighbourCol(c, k)
     IN IF k <= 4 /\ InteriorPixel(nr, nc)
          THEN final[nr*width + nc]
          ELSE image0[nr*width + nc]]

(***************************************************************************)
(* C5: median3x3 leaves every pixel of row 0, row height-1, column 0 and   *)
(* column width-1 as it was before the call, whatever the frame size: only *)
(* pixels strictly inside the border are ever written.                     *)
(***************************************************************************)
C5_BorderUnchanged ==
  /\ DOMAIN image = DOMAIN image0
  /\ \A r \in 0..(height - 1) : \A c \in 0..(width - 1) :
        BorderPixel(r, c) => image[r*width + c] = image0[r*width + c]

\* median3x3 has finished and changed at least two pixels of the frame.
C5_Witness ==
  /\ pc = "filtered"
  /\ Cardinality({i \in DOMAIN image : image[i] # image0[i]}) >= 2

(***************************************************************************)
(* C6: median3x3 replaces every interior pixel, in row-major order, by the *)
(* 5th smallest of the 9 values of its neighbourhood as they stand in the  *)
(* buffer at that moment (row above and left neighbour already filtered,   *)
(* the rest original); the sorted samples are ascending and a permutation  *)
(* of the gathered ones, and the pixel gets the sample of index 4.         *)
(***************************************************************************)
C6_InPlaceMedian ==
  /\ (pc = "cols" /\ col > 1) =>
        LET ptr == row*width + (col - 1)
            gathered == [k \in 1..9 |->
                           IF k = 5 THEN image0[ptr]
                           ELSE image[NeighbourRow(row, k)*width + NeighbourCol(col - 1, k)]]
        IN /\ \A k \in 1..8 : pix_array[k] <= pix_array[k + 1]
           /\ SameBag(pix_array, gathered)
           /\ image[ptr] = pix_array[5]
           /\ image[ptr] = FifthSmallest(gathered)
  /\ pc = "filtered" =>
        \A r \in 0..(height - 1) : \A c \in 0..(width - 1) :
           InteriorPixel(r, c) =>
              image[r*width + c] = FifthSmallest(SeenInPlace(image, r, c))

\* median3x3 has finished and some pixel differs from the median of its
\* original neighbourhood: it saw neighbours that were already filtered.
C6_Witness ==
  /\ pc = "filtered"
  /\ \E r \in 0..(height - 1) : \E c \in 0..(width - 1) :
        /\ InteriorPixel(r, c)
        /\ image[r*width + c] # FifthSmallest(SeenInPlace(image0, r, c))

(***************************************************************************)
(* C8: for any non-empty motion field with at least one nonzero entry,     *)
(* compute_statistics reports min == 0: no magnitude quick_sqrt returns    *)
(* for x*x + y*y with x, y in -16..15 is negative, so the min that starts  *)
(* at 0 is never lowered.                                                  *)
(***************************************************************************)
C8_MinReportedZero ==
  /\ ~FLt(length, FZero(0))
  /\ pc \in {"stat_loop", "stat_done"} => min = FZero(0)
  /\ (pc = "stat_done" /\ size > 0 /\ \E i \in DOMAIN mv : mv[i] # ZeroVector)
       => /\ min = FZero(0)
          /\ ~IsNaN(mean)

\* A field of several entries, none of them zero, has been processed: min
\* is 0 although every magnitude is positive.
C8_Witness ==
  /\ pc = "stat_done"
  /\ size >= 2
  /\ \A i \in DOMAIN mv : mv[i] # ZeroVector
  /\ FGt(max, FZero(0))
  /\ FGt(mean, FZero(0))
  /\ min = FZero(0)

====
